---- MODULE Spec2Model ----
(***************************************************************************)
(* Workflow readiness of the A2A Light dashboard.                          *)
(*                                                                         *)
(* getRequiredAgents (WorkflowCard.tsx:165-188) resolves the agent names a *)
(* workflow's steps declare against the list of registered agents, and     *)
(* getWorkflowStatus (WorkflowCard.tsx:40-48) reduces the resolved         *)
(* statuses and the activation flag to ready / partial / unavailable /     *)
(* disabled.                                                               *)
(*                                                                         *)
(* A JavaScript string is a sequence of one-character strings, so that     *)
(* toLowerCase and includes are computed character by character.  An       *)
(* optional property that is absent is a record without that field.        *)
(***************************************************************************)
EXTENDS Naturals, Sequences, FiniteSets

VARIABLES
    allAgents,      \* the registered agents handed to getRequiredAgents, in registry order
    workflow,       \* per card: the workflow prop
    isActivated,    \* per card: the isActivated prop
    agentStatuses,  \* per card: the agentStatuses prop (default [])
    status,         \* per card: the last value of getWorkflowStatus(), "none" before the first
    pc,             \* per card: "idle", "resolved", "rendered" or "threw"
    returned,       \* per card: every value getWorkflowStatus() has returned so far (history)
    registry,       \* agent registry: the stored AgentDescriptor of each registered key
    liveness,       \* agent registry: isOnline and the flap-debounce counter of each registered key
    recent,         \* per registered key: its latest probe outcomes, at most Threshold (history)
    lock,           \* per key: the writer that holds the key, or "free"
    staging,        \* per key: the record under construction by the writer that holds the key
    wpc,            \* per registering client: where its register call stands
    wdesc,          \* per registering client: the descriptor it sent
    written,        \* per key: the valid descriptors sent so far (history)
    lastCommitted,  \* per key: the descriptor of the latest accepted registration (history)
    serviceSelections, \* start.ps1: $serviceSelections, service name -> selected
    selectedIndex,  \* start.ps1: $selectedIndex, 0-based index of the highlighted service
    proceed,        \* start.ps1: $proceed
    key,            \* start.ps1: $key, the last key ReadKey returned, NoKey before the first
    selectedServices, \* start.ps1: $selectedServices, unset ($null) before Enter
    selectedAgents, \* start.ps1: $selectedAgents
    agentDirs,      \* start.ps1: the remote agents whose directory exists under remote_agents
    windows,        \* start.ps1: the processes started with Start-Process so far, in order
    spc,            \* start.ps1: the position of the script
    agentIndex,     \* start.ps1: the position of the foreach loop in $selectedAgents
    sessionStorage, \* the tab's sessionStorage: item key -> stored string
    openedWith,     \* the sessionStorage as it was when the page was opened (history)
    home,           \* Home: its state isAuthenticated, isLoading, user
    lastHandler,    \* Home: the effect or handler that ran last, "none" before the first (history)
    form,           \* LoginForm: its state error, isLoading, and where handleSubmit stands
    onLoginCalls,   \* LoginForm: the arguments of the onLogin calls of the latest submit (history)
    lastResponse,   \* LoginForm: the outcome of the latest login() call, NoResponse before (history)
    voice,          \* VoiceButton: what useVoiceRealtime currently returns
    buttonState,    \* VoiceButton: the value of getButtonState() at the last render
    voiceCalls      \* VoiceButton: the calls handleClick has made on the hook (history)

cardVars == <<allAgents, workflow, isActivated, agentStatuses, status, pc, returned>>
regVars == <<registry, liveness, recent, lock, staging, wpc, wdesc, written, lastCommitted>>
menuVars == <<serviceSelections, selectedIndex, proceed, key, selectedServices,
              selectedAgents, agentDirs, windows, spc, agentIndex>>
pageVars == <<sessionStorage, openedWith, home, lastHandler, form, onLoginCalls, lastResponse>>
voiceVars == <<voice, buttonState, voiceCalls>>
uiVars == <<menuVars, pageVars, voiceVars>>
vars == <<cardVars, regVars, uiVars>>

\* start.ps1 is not running
NoMenu ==
    /\ serviceSelections = <<>>
    /\ selectedIndex = 0
    /\ proceed = FALSE
    /\ key = <<>>
    /\ selectedServices = <<>>
    /\ selectedAgents = <<>>
    /\ agentDirs = {}
    /\ windows = <<>>
    /\ spc = "absent"
    /\ agentIndex = 0

\* the Home page is not open
NoPage ==
    /\ sessionStorage = <<>>
    /\ openedWith = <<>>
    /\ home = <<>>
    /\ lastHandler = "none"
    /\ form = <<>>
    /\ onLoginCalls = <<>>
    /\ lastResponse = <<>>

\* no VoiceButton is mounted
NoVoice ==
    /\ voice = <<>>
    /\ buttonState = <<>>
    /\ voiceCalls = <<>>

-----------------------------------------------------------------------------
(* Bounds of the model *)

MaxAgents == 2      \* registered agents in a snapshot
MaxSteps == 2       \* steps of a workflow
MaxCardAgents == 1  \* registered agents in a snapshot that two cards share
MaxRemoteAgents == 2 \* remote agents start.ps1 offers after backend and frontend
MaxClicks == 2      \* taps on the voice button between two renders

-----------------------------------------------------------------------------
(* Strings *)

Range(s) == {s[i] : i \in 1..Len(s)}

UpperCase == <<"A","B","C","D","E","F","G","H","I","J","K","L","M",
               "N","O","P","Q","R","S","T","U","V","W","X","Y","Z">>
LowerCase == <<"a","b","c","d","e","f","g","h","i","j","k","l","m",
               "n","o","p","q","r","s","t","u","v","w","x","y","z">>

Chars == Range(UpperCase) \cup Range(LowerCase) \cup {" ", "_"}

\* the lower-case form of each character: a letter A-Z maps to a-z, any other
\* character to itself
toLowerCaseChar ==
    [c \in Chars |->
        IF \E i \in 1..Len(UpperCase) : UpperCase[i] = c
        THEN LowerCase[CHOOSE i \in 1..Len(UpperCase) : UpperCase[i] = c]
        ELSE c]

\* String.prototype.toLowerCase
toLowerCase(s) == [i \in 1..Len(s) |-> toLowerCaseChar[s[i]]]

\* String.prototype.includes: needle occurs in hay as a contiguous substring
includes(hay, needle) ==
    \E i \in 0..Len(hay) :
        /\ i + Len(needle) <= Len(hay)
        /\ SubSeq(hay, i + 1, i + Len(needle)) = needle

EmptyString == <<>>

\* The names the model draws from
deep_search == <<"d","e","e","p","_","s","e","a","r","c","h">>
deep_search_spaced == <<"d","e","e","p"," ","s","e","a","r","c","h">>
search == <<"s","e","a","r","c","h">>
stripe == <<"s","t","r","i","p","e">>
twilio == <<"t","w","i","l","i","o">>
DeepSearchAgent == <<"D","e","e","p"," ","S","e","a","r","c","h"," ","A","g","e","n","t">>
Search == <<"S","e","a","r","c","h">>

DeclaredNames == {deep_search, deep_search_spaced, search}
RegisteredNames == {DeepSearchAgent, Search}
PaymentNames == {stripe, twilio}

-----------------------------------------------------------------------------
(* getRequiredAgents *)

\* if (step.agentName): the property is present and not the empty string
Truthy(step) == "agentName" \in DOMAIN step /\ step.agentName # EmptyString

\* requiredAgentNames after the first n steps: a Set keeps insertion order
\* and ignores a value it already holds
RECURSIVE AddSteps(_, _)
AddSteps(steps, n) ==
    IF n = 0 THEN <<>>
    ELSE LET acc == AddSteps(steps, n - 1)
         IN  IF Truthy(steps[n]) /\ steps[n].agentName \notin Range(acc)
             THEN Append(acc, steps[n].agentName)
             ELSE acc

\* requiredAgentNames kept in an array: every truthy agentName is pushed,
\* repeated or not
requiredAgentNames_NoDedupe(w) ==
    IF "steps" \in DOMAIN w
    THEN SelectSeq([i \in 1..Len(w.steps) |->
                        IF Truthy(w.steps[i]) THEN w.steps[i].agentName ELSE EmptyString],
                   LAMBDA n : n # EmptyString)
    ELSE <<>>

\* the distinct names taken in the order of their last occurrence
requiredAgentNames_Reversed(w) ==
    IF "steps" \in DOMAIN w
    THEN LET names == AddSteps(w.steps, Len(w.steps))
         IN  [i \in 1..Len(names) |-> names[Len(names) + 1 - i]]
    ELSE <<>>

\* workflow.steps?.forEach(...)
requiredAgentNames(w) ==
    IF "steps" \in DOMAIN w THEN AddSteps(w.steps, Len(w.steps)) ELSE <<>>

\* the predicate with the lower-casing left out
Matches_CaseSensitive(a, agentName) ==
    \/ a.name = agentName
    \/ includes(a.name, agentName)
    \/ includes(agentName, a.name)

\* the predicate handed to allAgents.find
Matches(a, agentName) ==
    LET an == toLowerCase(a.name)
        dn == toLowerCase(agentName)
    IN  \/ an = dn
        \/ includes(an, dn)
        \/ includes(dn, an)

\* a.name.toLowerCase() throws a TypeError on an agent without a name
Nameless(a) == "name" \notin DOMAIN a

\* allAgents.find(pred) scanning from index i: the index of the first agent the
\* predicate accepts, 0 for undefined; threw when the predicate is evaluated
\* on a nameless agent before any agent is accepted
RECURSIVE findFrom(_, _, _)
findFrom(agents, agentName, i) ==
    IF i > Len(agents) THEN [threw |-> FALSE, index |-> 0]
    ELSE IF Nameless(agents[i]) THEN [threw |-> TRUE, index |-> 0]
    ELSE IF Matches(agents[i], agentName) THEN [threw |-> FALSE, index |-> i]
    ELSE findFrom(agents, agentName, i + 1)

\* the scan run to the end of the list, keeping the last agent accepted
find_Last(agents, agentName) ==
    LET hits == {i \in 1..Len(agents) :
                    ~Nameless(agents[i]) /\ Matches(agents[i], agentName)}
    IN  [threw |-> \E i \in 1..Len(agents) : Nameless(agents[i]),
         index |-> IF hits = {} THEN 0 ELSE CHOOSE i \in hits : \A j \in hits : j <= i]

\* an online agent preferred among the agents the predicate accepts
find_PreferOnline(agents, agentName) ==
    LET hits == {i \in 1..Len(agents) :
                    ~Nameless(agents[i]) /\ Matches(agents[i], agentName)}
        onlineHits == {i \in hits : agents[i].status = "online"}
        pick(S) == CHOOSE i \in S : \A j \in S : i <= j
    IN  [threw |-> \E i \in 1..Len(agents) : Nameless(agents[i]),
         index |-> IF hits = {} THEN 0
                   ELSE IF onlineHits # {} THEN pick(onlineHits) ELSE pick(hits)]

\* allAgents.find(...) ?? allAgents[0]: the first agent stands in for a name
\* that no agent matches
find_FallbackFirst(agents, agentName) ==
    LET m == findFrom(agents, agentName, 1)
    IN  [threw |-> m.threw,
         index |-> IF m.index = 0 /\ Len(agents) >= 1 THEN 1 ELSE m.index]

find(agents, agentName) == findFrom(agents, agentName, 1)

\* !!matchingAgent?.status: any status string counts as online
isOnlineOf_Truthy(agents, index) == index # 0

\* matchingAgent?.status === 'online'
isOnlineOf(agents, index) ==
    IF index = 0 THEN FALSE ELSE agents[index].status = "online"

\* matchingAgent.status without the optional chaining: throws on undefined
AgentStatusFor_Strict(agentName, agents) ==
    LET m == find(agents, agentName)
    IN  [threw |-> m.threw \/ m.index = 0,
         entry |-> [agentName |-> agentName,
                    isOnline |-> isOnlineOf(agents, m.index),
                    isEnabled |-> FALSE]]

\* the body of the map callback, lines 175-187
AgentStatusFor(agentName, agents) ==
    LET m == find(agents, agentName)
    IN  [threw |-> m.threw,
         entry |-> [agentName |-> agentName,
                    isOnline |-> isOnlineOf(agents, m.index),
                    isEnabled |-> FALSE]]

getRequiredAgents(w, agents) ==
    LET names == requiredAgentNames(w)
        each == [i \in 1..Len(names) |-> AgentStatusFor(names[i], agents)]
    IN  [threw |-> \E i \in 1..Len(names) : each[i].threw,
         value |-> [i \in 1..Len(names) |-> each[i].entry]]

-----------------------------------------------------------------------------
(* getWorkflowStatus *)

onlineCountOf(statuses) == Cardinality({i \in 1..Len(statuses) : statuses[i].isOnline})

\* the isActivated test left out
getWorkflowStatus_IgnoreActivation(activated, statuses) ==
    IF Len(statuses) = 0 THEN "ready"
    ELSE IF onlineCountOf(statuses) = Len(statuses) THEN "ready"
    ELSE IF onlineCountOf(statuses) > 0 THEN "partial"
    ELSE "unavailable"

\* the onlineCount > 0 test placed before the test for all online
getWorkflowStatus_PartialFirst(activated, statuses) ==
    IF ~activated THEN "disabled"
    ELSE IF Len(statuses) = 0 THEN "ready"
    ELSE IF onlineCountOf(statuses) > 0 THEN "partial"
    ELSE IF onlineCountOf(statuses) = Len(statuses) THEN "ready"
    ELSE "unavailable"

\* the test for an empty list left out and the test for none online placed first
getWorkflowStatus_EmptyUnavailable(activated, statuses) ==
    IF ~activated THEN "disabled"
    ELSE IF onlineCountOf(statuses) = 0 THEN "unavailable"
    ELSE IF onlineCountOf(statuses) = Len(statuses) THEN "ready"
    ELSE "partial"

\* the statuses kept in one list that all cards share: the counts run over
\* the entries of every card
getWorkflowStatus_SharedStatuses(activated, statuses) ==
    LET all == UNION {{k} \X (1..Len(agentStatuses[k])) : k \in DOMAIN agentStatuses}
        online == {e \in all : agentStatuses[e[1]][e[2]].isOnline}
    IN  IF ~activated THEN "disabled"
        ELSE IF all = {} THEN "ready"
        ELSE IF Cardinality(online) = Cardinality(all) THEN "ready"
        ELSE IF Cardinality(online) > 0 THEN "partial"
        ELSE "unavailable"

getWorkflowStatus(activated, statuses) ==
    IF ~activated THEN "disabled"
    ELSE IF Len(statuses) = 0 THEN "ready"
    ELSE IF onlineCountOf(statuses) = Len(statuses) THEN "ready"
    ELSE IF onlineCountOf(statuses) > 0 THEN "partial"
    ELSE "unavailable"

Readiness == {"ready", "partial", "unavailable", "disabled"}

-----------------------------------------------------------------------------
(* Agent registry, self-registration intake and liveness tracker *)

\* consecutive probe outcomes against the classification that toggle it (N)
Threshold == 2

Clients == {"agent", "restarted"}

\* the payloads a client may send for the one key (name, baseUrl) of the model:
\* the two complete ones differ in both of their other fields
OldDescriptor == [name |-> "twilio", baseUrl |-> "http://twilio:8016",
                  capabilities |-> "streaming", provider |-> "contoso"]
NewDescriptor == [name |-> "twilio", baseUrl |-> "http://twilio:8016",
                  capabilities |-> "plain", provider |-> "fabrikam"]
NoNameDescriptor == [baseUrl |-> "http://twilio:8016",
                     capabilities |-> "streaming", provider |-> "contoso"]
NoBaseUrlDescriptor == [name |-> "twilio",
                        capabilities |-> "streaming", provider |-> "contoso"]
Descriptors == {OldDescriptor, NewDescriptor, NoNameDescriptor, NoBaseUrlDescriptor}
NoDescriptor == [none |-> TRUE]

\* validation of the required fields
ValidDescriptor(d) == "name" \in DOMAIN d /\ "baseUrl" \in DOMAIN d

\* the registry key of a valid descriptor
KeyOf(d) == <<d.name, d.baseUrl>>
Keys == {KeyOf(OldDescriptor)}

Unstaged == [capabilities |-> "unset", provider |-> "unset"]

\* the registry before any agent has registered
RegistryEmpty ==
    /\ registry = <<>>
    /\ liveness = <<>>
    /\ recent = [k \in Keys |-> <<>>]
    /\ lock = [k \in Keys |-> "free"]
    /\ staging = [k \in Keys |-> Unstaged]
    /\ wpc = [w \in Clients |-> "idle"]
    /\ wdesc = [w \in Clients |-> NoDescriptor]
    /\ written = [k \in Keys |-> {}]
    /\ lastCommitted = [k \in Keys |-> NoDescriptor]

\* no card is mounted
NoCards ==
    /\ allAgents = <<>>
    /\ workflow = <<>>
    /\ isActivated = <<>>
    /\ agentStatuses = <<>>
    /\ status = <<>>
    /\ pc = <<>>
    /\ returned = <<>>

\* f with key k set to v, k added to its domain when new
Upsert(f, k, v) == [x \in DOMAIN f \cup {k} |-> IF x = k THEN v ELSE f[x]]

\* POST /agents/register arrives with body d
Call(w, d) ==
    /\ wpc[w] = "idle"
    /\ wpc' = [wpc EXCEPT ![w] = "called"]
    /\ wdesc' = [wdesc EXCEPT ![w] = d]
    /\ written' = IF ValidDescriptor(d)
                  THEN [written EXCEPT ![KeyOf(d)] = @ \cup {d}]
                  ELSE written
    /\ UNCHANGED <<registry, liveness, recent, lock, staging, lastCommitted>>
    /\ UNCHANGED <<cardVars, uiVars>>

\* a rejected registration that also drops what the registry holds
Validate_EvictsOnInvalid(w) ==
    /\ wpc[w] = "called"
    /\ IF ValidDescriptor(wdesc[w])
       THEN /\ wpc' = [wpc EXCEPT ![w] = "waiting"]
            /\ UNCHANGED <<registry, liveness>>
       ELSE /\ wpc' = [wpc EXCEPT ![w] = "descriptor-invalid"]
            /\ registry' = <<>>
            /\ liveness' = <<>>
    /\ UNCHANGED <<recent, lock, staging, wdesc, written, lastCommitted>>
    /\ UNCHANGED <<cardVars, uiVars>>

\* the required fields are validated before anything is written
Validate(w) ==
    /\ wpc[w] = "called"
    /\ wpc' = [wpc EXCEPT ![w] = IF ValidDescriptor(wdesc[w]) THEN "waiting"
                                 ELSE "descriptor-invalid"]
    /\ UNCHANGED <<registry, liveness, recent, lock, staging, wdesc, written, lastCommitted>>
    /\ UNCHANGED <<cardVars, uiVars>>

\* the key taken without looking at its holder
Acquire_NoLock(w) ==
    /\ wpc[w] = "waiting"
    /\ lock' = [lock EXCEPT ![KeyOf(wdesc[w])] = w]
    /\ staging' = [staging EXCEPT ![KeyOf(wdesc[w])] = Unstaged]
    /\ wpc' = [wpc EXCEPT ![w] = "holding"]
    /\ UNCHANGED <<registry, liveness, recent, wdesc, written, lastCommitted>>
    /\ UNCHANGED <<cardVars, uiVars>>

\* writers of one key are served one at a time
Acquire(w) ==
    /\ wpc[w] = "waiting"
    /\ lock[KeyOf(wdesc[w])] = "free"
    /\ lock' = [lock EXCEPT ![KeyOf(wdesc[w])] = w]
    /\ staging' = [staging EXCEPT ![KeyOf(wdesc[w])] = Unstaged]
    /\ wpc' = [wpc EXCEPT ![w] = "holding"]
    /\ UNCHANGED <<registry, liveness, recent, wdesc, written, lastCommitted>>
    /\ UNCHANGED <<cardVars, uiVars>>

\* the holder builds the new record field by field, out of the readers' sight
StageCapabilities(w) ==
    /\ wpc[w] = "holding"
    /\ staging' = [staging EXCEPT ![KeyOf(wdesc[w])].capabilities = wdesc[w].capabilities]
    /\ wpc' = [wpc EXCEPT ![w] = "half-staged"]
    /\ UNCHANGED <<registry, liveness, recent, lock, wdesc, written, lastCommitted>>
    /\ UNCHANGED <<cardVars, uiVars>>

StageProvider(w) ==
    /\ wpc[w] = "half-staged"
    /\ staging' = [staging EXCEPT ![KeyOf(wdesc[w])].provider = wdesc[w].provider]
    /\ wpc' = [wpc EXCEPT ![w] = "staged"]
    /\ UNCHANGED <<registry, liveness, recent, lock, wdesc, written, lastCommitted>>
    /\ UNCHANGED <<cardVars, uiVars>>

\* the record the holder of key k publishes
StagedRecord(w) ==
    [name |-> wdesc[w].name, baseUrl |-> wdesc[w].baseUrl,
     capabilities |-> staging[KeyOf(wdesc[w])].capabilities,
     provider |-> staging[KeyOf(wdesc[w])].provider]

\* the classification of an agent when its key enters the registry
FirstLiveness_Offline == [isOnline |-> FALSE, streak |-> 0]

FirstLiveness == [isOnline |-> TRUE, streak |-> 0]

\* the upsert with the agent marked online on every accepted registration
Publish_AlwaysOnline(w) ==
    LET k == KeyOf(wdesc[w])
    IN  /\ wpc[w] = "staged"
        /\ registry' = Upsert(registry, k, StagedRecord(w))
        /\ liveness' = Upsert(liveness, k, FirstLiveness)
        /\ UNCHANGED recent
        /\ lastCommitted' = [lastCommitted EXCEPT ![k] = wdesc[w]]
        /\ lock' = [lock EXCEPT ![k] = "free"]
        /\ wpc' = [wpc EXCEPT ![w] = "accepted"]
        /\ UNCHANGED <<staging, wdesc, written>>
        /\ UNCHANGED <<cardVars, uiVars>>

\* the upsert: the stored descriptor is superseded in one step; a key new to
\* the registry is classified online, a known key keeps its classification
Publish(w) ==
    LET k == KeyOf(wdesc[w])
    IN  /\ wpc[w] = "staged"
        /\ registry' = Upsert(registry, k, StagedRecord(w))
        /\ liveness' = IF k \in DOMAIN registry THEN liveness
                       ELSE Upsert(liveness, k, FirstLiveness)
        /\ UNCHANGED recent
        /\ lastCommitted' = [lastCommitted EXCEPT ![k] = wdesc[w]]
        /\ lock' = [lock EXCEPT ![k] = "free"]
        /\ wpc' = [wpc EXCEPT ![w] = "accepted"]
        /\ UNCHANGED <<staging, wdesc, written>>
        /\ UNCHANGED <<cardVars, uiVars>>

\* the response (accept, or reject with the reason) has been sent
Return(w) ==
    /\ wpc[w] \in {"accepted", "descriptor-invalid"}
    /\ wpc' = [wpc EXCEPT ![w] = "idle"]
    /\ wdesc' = [wdesc EXCEPT ![w] = NoDescriptor]
    /\ UNCHANGED <<registry, liveness, recent, lock, staging, written, lastCommitted>>
    /\ UNCHANGED <<cardVars, uiVars>>

\* the counter that is not cleared by an outcome that agrees with the classification
NextLiveness_NoReset(l, alive) ==
    IF alive = l.isOnline THEN l
    ELSE IF l.streak + 1 >= Threshold THEN [isOnline |-> alive, streak |-> 0]
    ELSE [l EXCEPT !.streak = @ + 1]

\* flap-debounce: an outcome that agrees with the classification clears the
\* counter, one against it counts, and the Threshold-th in a row toggles
NextLiveness(l, alive) ==
    IF alive = l.isOnline THEN [l EXCEPT !.streak = 0]
    ELSE IF l.streak + 1 >= Threshold THEN [isOnline |-> alive, streak |-> 0]
    ELSE [l EXCEPT !.streak = @ + 1]

\* the latest Threshold outcomes
Latest(outcomes) ==
    IF Len(outcomes) <= Threshold THEN outcomes
    ELSE SubSeq(outcomes, Len(outcomes) - Threshold + 1, Len(outcomes))

\* GET <baseUrl>/health has answered 200 in time (alive) or has not; the
\* result is written when no other writer holds the key
ProbeResult(k, alive) ==
    /\ k \in DOMAIN registry
    /\ lock[k] = "free"
    /\ liveness' = [liveness EXCEPT ![k] = NextLiveness(@, alive)]
    /\ recent' = [recent EXCEPT ![k] = Latest(Append(@, alive))]
    /\ UNCHANGED <<registry, lock, staging, wpc, wdesc, written, lastCommitted>>
    /\ UNCHANGED <<cardVars, uiVars>>

NextRegistry ==
    \/ \E w \in Clients, d \in Descriptors : Call(w, d)
    \/ \E w \in Clients : Validate(w)
    \/ \E w \in Clients : Acquire(w)
    \/ \E w \in Clients : StageCapabilities(w)
    \/ \E w \in Clients : StageProvider(w)
    \/ \E w \in Clients : Publish(w)
    \/ \E w \in Clients : Return(w)
    \/ \E k \in Keys, alive \in BOOLEAN : ProbeResult(k, alive)

\* The registry alone: no card is mounted
InitRegistry ==
    /\ NoCards
    /\ RegistryEmpty
    /\ NoMenu /\ NoPage /\ NoVoice
SpecRegistry == InitRegistry /\ [][NextRegistry]_vars

-----------------------------------------------------------------------------
(* Inputs *)

SeqsUpTo(S, n) == UNION {[1..k -> S] : k \in 0..n}

AgentsOver(names) == [name : names, status : {"online", "offline"}]

StepsOver(names) ==
    {[task |-> "task"]} \cup [agentName : names \cup {EmptyString}, task : {"task"}]

WorkflowsOver(steps) ==
    {[name |-> "workflow"]} \cup [name : {"workflow"}, steps : SeqsUpTo(steps, MaxSteps)]

InitWith(cards, agents, maxAgents, steps) ==
    /\ allAgents \in SeqsUpTo(agents, maxAgents)
    /\ workflow \in [cards -> WorkflowsOver(steps)]
    /\ isActivated \in [cards -> BOOLEAN]
    /\ agentStatuses = [c \in cards |-> <<>>]
    /\ status = [c \in cards |-> "none"]
    /\ pc = [c \in cards |-> "idle"]
    /\ returned = [c \in cards |-> {}]
    /\ RegistryEmpty
    /\ NoMenu /\ NoPage /\ NoVoice

Cards == DOMAIN workflow

-----------------------------------------------------------------------------
(* Operations *)

\* getRequiredAgents walking the steps from the last one with
\* workflow.steps?.reverse(), which reverses the array of the workflow in place
GetRequiredAgents_ReversesSteps(c) ==
    /\ pc[c] \in {"idle", "rendered"}
    /\ workflow' = [workflow EXCEPT ![c] =
                       IF "steps" \in DOMAIN @
                       THEN [@ EXCEPT !.steps =
                                [i \in 1..Len(@) |-> @[Len(@) + 1 - i]]]
                       ELSE @]
    /\ LET r == getRequiredAgents(workflow'[c], allAgents)
       IN  IF r.threw
           THEN /\ pc' = [pc EXCEPT ![c] = "threw"]
                /\ UNCHANGED agentStatuses
           ELSE /\ pc' = [pc EXCEPT ![c] = "resolved"]
                /\ agentStatuses' = [agentStatuses EXCEPT ![c] = r.value]
    /\ UNCHANGED <<allAgents, isActivated, status, returned>>
    /\ UNCHANGED <<regVars, uiVars>>

\* The parent computes the agentStatuses prop of card c
GetRequiredAgents(c) ==
    /\ pc[c] \in {"idle", "rendered"}
    /\ LET r == getRequiredAgents(workflow[c], allAgents)
       IN  IF r.threw
           THEN /\ pc' = [pc EXCEPT ![c] = "threw"]
                /\ UNCHANGED agentStatuses
           ELSE /\ pc' = [pc EXCEPT ![c] = "resolved"]
                /\ agentStatuses' = [agentStatuses EXCEPT ![c] = r.value]
    /\ UNCHANGED <<allAgents, workflow, isActivated, status, returned>>
    /\ UNCHANGED <<regVars, uiVars>>

\* Card c renders: const status = getWorkflowStatus(), line 50
GetWorkflowStatus(c) ==
    /\ pc[c] = "resolved"
    /\ LET s == getWorkflowStatus(isActivated[c], agentStatuses[c])
       IN  /\ status' = [status EXCEPT ![c] = s]
           /\ returned' = [returned EXCEPT ![c] = @ \cup {s}]
    /\ pc' = [pc EXCEPT ![c] = "rendered"]
    /\ UNCHANGED <<allAgents, workflow, isActivated, agentStatuses>>
    /\ UNCHANGED <<regVars, uiVars>>

Next == \E c \in Cards : GetRequiredAgents(c) \/ GetWorkflowStatus(c)

\* One card, over the search names
Init == InitWith({"card"}, AgentsOver(RegisteredNames), MaxAgents, StepsOver(DeclaredNames))
Spec == Init /\ [][Next]_vars

\* One card, over the payment names
InitPayments == InitWith({"card"}, AgentsOver(PaymentNames \cup {Search}), MaxAgents,
                         StepsOver(PaymentNames))
SpecPayments == InitPayments /\ [][Next]_vars

\* Two cards over one snapshot, over the payment names
InitCards == InitWith({"card", "other"}, AgentsOver(PaymentNames), MaxCardAgents,
                      [agentName : PaymentNames, task : {"task"}])
SpecCards == InitCards /\ [][Next]_vars

\* One card over snapshots as they arrive at run time: an agent may lack its
\* name or carry the empty string as its name
InitUntyped == InitWith({"card"},
                        AgentsOver({Search, EmptyString}) \cup [status : {"online", "offline"}],
                        MaxAgents, StepsOver({search}))
SpecUntyped == InitUntyped /\ [][Next]_vars

-----------------------------------------------------------------------------
(* Vocabulary of the properties *)

Computed(c) == pc[c] \in {"resolved", "rendered"}
Rendered(c) == pc[c] = "rendered"

\* the entries of a computed agentStatuses prop
Entries(c) == 1..Len(agentStatuses[c])
OnlineEntries(c) == {i \in Entries(c) : agentStatuses[c][i].isOnline}

\* rule 1: the registered agents whose name equals the declared name, ignoring case
ExactAgents(n) ==
    {j \in 1..Len(allAgents) : toLowerCase(allAgents[j].name) = toLowerCase(n)}

\* rule 2: the registered agents whose name contains the declared name or is
\* contained in it, ignoring case
ContainingAgents(n) ==
    {j \in 1..Len(allAgents) :
        \/ includes(toLowerCase(allAgents[j].name), toLowerCase(n))
        \/ includes(toLowerCase(n), toLowerCase(allAgents[j].name))}

First(S) == CHOOSE j \in S : \A k \in S : j <= k

Online(j) == allAgents[j].status = "online"

-----------------------------------------------------------------------------
(* C1 *)

\* C1: a card that is not activated renders 'disabled', whatever its list of
\* agent statuses holds (empty, all online, all offline or mixed).
C1_DisabledWhenNotActivated ==
    \A c \in Cards : Rendered(c) /\ ~isActivated[c] => status[c] = "disabled"

\* a card that is not activated has rendered over a mixed list of statuses
C1_Witness ==
    \E c \in Cards :
        /\ Rendered(c) /\ ~isActivated[c]
        /\ OnlineEntries(c) # {} /\ OnlineEntries(c) # Entries(c)

-----------------------------------------------------------------------------
(* C2 *)

\* C2: an activated card with totalCount >= 1 required agents renders 'ready'
\* exactly when all of them are online, 'unavailable' exactly when none is, and
\* 'partial' exactly when some but not all are.
C2_ReadinessByCount ==
    \A c \in Cards :
        Rendered(c) /\ isActivated[c] /\ Len(agentStatuses[c]) >= 1 =>
            LET onlineCount == Cardinality(OnlineEntries(c))
                totalCount == Len(agentStatuses[c])
            IN  /\ status[c] = "ready" <=> onlineCount = totalCount
                /\ status[c] = "unavailable" <=> onlineCount = 0
                /\ status[c] = "partial" <=> (0 < onlineCount /\ onlineCount < totalCount)

\* an activated card has rendered 'partial' over one online and one offline agent
C2_Witness ==
    \E c \in Cards :
        /\ Rendered(c) /\ isActivated[c] /\ Len(agentStatuses[c]) = 2
        /\ Cardinality(OnlineEntries(c)) = 1
        /\ status[c] = "partial"

-----------------------------------------------------------------------------
(* C3 *)

\* C3: a declared name that some registered agent equals ignoring case is
\* resolved to an exactly-equal agent and reports that agent's status, even
\* when an agent earlier in the registry matches by containment only.
C3_ExactMatchWins ==
    \A c \in Cards :
        Computed(c) =>
            \A i \in Entries(c) :
                LET e == agentStatuses[c][i]
                IN  ExactAgents(e.agentName) # {} =>
                        \E j \in ExactAgents(e.agentName) : e.isOnline = Online(j)

-----------------------------------------------------------------------------
(* C4 *)

\* C4 as stated: with "Deep Search Agent" at the head of the registry, the
\* declared name "deep_search" resolves to it, so the requirement is online
\* exactly when that agent is online.
C4_DeepSearchUnderscoreResolves ==
    \A c \in Cards :
        Computed(c) /\ Len(allAgents) >= 1 /\ allAgents[1].name = DeepSearchAgent =>
            \A i \in Entries(c) :
                agentStatuses[c][i].agentName = deep_search =>
                    agentStatuses[c][i].isOnline = Online(1)

\* C4 amended: "deep_search" matches "Deep Search Agent" by neither rule (the
\* underscore is not the space), so against a registry holding only agents of
\* that name it is unresolved and offline; "deep search" resolves to that agent
\* by containment (rule 2, the names are not equal ignoring case), so the
\* requirement is online exactly when that agent is online.
C4_DeepSearchSpacedResolves ==
    \A c \in Cards :
        Computed(c) =>
            \A i \in Entries(c) :
                LET e == agentStatuses[c][i]
                IN  /\ ( /\ e.agentName = deep_search
                         /\ \A j \in 1..Len(allAgents) : allAgents[j].name = DeepSearchAgent )
                        => ~e.isOnline
                    /\ ( /\ e.agentName = deep_search_spaced
                         /\ Len(allAgents) >= 1
                         /\ allAgents[1].name = DeepSearchAgent )
                        => /\ e.isOnline = Online(1)
                           /\ 1 \in ContainingAgents(e.agentName)
                           /\ 1 \notin ExactAgents(e.agentName)

\* "deep search" has been resolved to an online "Deep Search Agent", and
\* "deep_search" has been left unresolved against the same registry
C4_Witness ==
    \E c \in Cards :
        /\ Computed(c)
        /\ \A j \in 1..Len(allAgents) : allAgents[j].name = DeepSearchAgent /\ Online(j)
        /\ \E i \in Entries(c) :
              agentStatuses[c][i].agentName = deep_search_spaced /\ agentStatuses[c][i].isOnline
        /\ \E i \in Entries(c) :
              agentStatuses[c][i].agentName = deep_search /\ ~agentStatuses[c][i].isOnline

-----------------------------------------------------------------------------
(* C5 *)

\* C5: when no registered agent equals the declared name ignoring case and
\* several contain it or are contained in it, the declared name resolves to the
\* first of them in registry order and reports that agent's status.
C5_FirstContainmentMatch ==
    \A c \in Cards :
        Computed(c) =>
            \A i \in Entries(c) :
                LET e == agentStatuses[c][i]
                    matching == ContainingAgents(e.agentName)
                IN  ExactAgents(e.agentName) = {} /\ Cardinality(matching) >= 2 =>
                        e.isOnline = Online(First(matching))

\* a declared name is reported offline after its first containment match,
\* although a later containment match is online
C5_Witness ==
    \E c \in Cards :
        /\ Computed(c)
        /\ \E i \in Entries(c) :
              LET e == agentStatuses[c][i]
                  matching == ContainingAgents(e.agentName)
              IN  /\ ExactAgents(e.agentName) = {}
                  /\ Cardinality(matching) >= 2
                  /\ ~Online(First(matching))
                  /\ \E j \in matching : Online(j)
                  /\ ~e.isOnline

-----------------------------------------------------------------------------
(* C6 *)

\* the agent names the steps of card c declare
Declared(c) ==
    IF "steps" \in DOMAIN workflow[c]
    THEN {workflow[c].steps[i].agentName :
            i \in {k \in 1..Len(workflow[c].steps) :
                    /\ "agentName" \in DOMAIN workflow[c].steps[k]
                    /\ workflow[c].steps[k].agentName # EmptyString}}
    ELSE {}

Unmatched(n) == ExactAgents(n) \cup ContainingAgents(n) = {}

\* C6: a declared name that no registered agent matches by rule 1 or rule 2
\* (the registry may be empty) raises no error, yields an entry with
\* isOnline = FALSE, and counts as offline: the card renders one of the four
\* values, and never 'ready' when it is activated.
C6_UnresolvedIsOffline ==
    \A c \in Cards :
        \A n \in Declared(c) :
            Unmatched(n) =>
                /\ pc[c] # "threw"
                /\ Computed(c) =>
                      \E i \in Entries(c) :
                          agentStatuses[c][i].agentName = n /\ ~agentStatuses[c][i].isOnline
                /\ Rendered(c) =>
                      /\ status[c] \in Readiness
                      /\ isActivated[c] => status[c] \in {"partial", "unavailable"}

\* an activated card has rendered 'partial' over a non-empty registry: one
\* declared name is resolved and online, another matches no registered agent
C6_Witness ==
    \E c \in Cards :
        /\ Rendered(c) /\ isActivated[c] /\ Len(allAgents) >= 1
        /\ \E n \in Declared(c) : Unmatched(n)
        /\ status[c] = "partial"

-----------------------------------------------------------------------------
(* C7 *)

Named(n) == {j \in 1..Len(allAgents) : allAgents[j].name = n}
AllOnline(n) == Named(n) # {} /\ \A j \in Named(n) : Online(j)
AllOffline(n) == Named(n) # {} /\ \A j \in Named(n) : ~Online(j)

\* C7: an activated workflow whose steps reference "stripe" and "twilio" renders
\* 'partial' with stripe online and twilio offline, 'ready' with both online,
\* and 'unavailable' with each of them offline or absent from the registry.
C7_StripeTwilioScenario ==
    \A c \in Cards :
        Rendered(c) /\ isActivated[c] /\ Declared(c) = {stripe, twilio} =>
            /\ AllOnline(stripe) /\ AllOffline(twilio) => status[c] = "partial"
            /\ AllOnline(stripe) /\ AllOnline(twilio) => status[c] = "ready"
            /\ ( /\ AllOffline(stripe) \/ Named(stripe) = {}
                 /\ AllOffline(twilio) \/ Named(twilio) = {} )
                => status[c] = "unavailable"

\* the first scenario: stripe online, twilio offline, the card rendered 'partial'
C7_Witness ==
    \E c \in Cards :
        /\ Rendered(c) /\ isActivated[c] /\ Declared(c) = {stripe, twilio}
        /\ AllOnline(stripe) /\ AllOffline(twilio)
        /\ status[c] = "partial"

-----------------------------------------------------------------------------
(* C8 *)

\* C8: an activated workflow with zero required agents (no steps, or no step
\* naming an agent) renders 'ready', whatever the registry holds.
C8_NoRequiredAgentsIsReady ==
    \A c \in Cards :
        Rendered(c) /\ isActivated[c] /\ Declared(c) = {} => status[c] = "ready"

\* an activated workflow whose only steps name no agent has rendered over a
\* registry that holds an offline agent
C8_Witness ==
    \E c \in Cards :
        /\ Rendered(c) /\ isActivated[c] /\ Declared(c) = {}
        /\ "steps" \in DOMAIN workflow[c] /\ Len(workflow[c].steps) >= 1
        /\ \E j \in 1..Len(allAgents) : ~Online(j)

-----------------------------------------------------------------------------
(* C9 *)

\* the workflow of card c with one more step that names agent n
WithRepeatedStep(c, n) ==
    [workflow[c] EXCEPT !.steps = Append(@, [agentName |-> n, task |-> "task"])]

\* C9: totalCount is the number of distinct agent names the steps declare, one
\* entry per name however many steps repeat it, and one more step that repeats
\* a name already declared leaves the readiness as it is.
C9_UniqueAgentNames ==
    \A c \in Cards :
        /\ Computed(c) =>
              /\ Len(agentStatuses[c]) = Cardinality(Declared(c))
              /\ {agentStatuses[c][i].agentName : i \in Entries(c)} = Declared(c)
        /\ Rendered(c) =>
              \A n \in Declared(c) :
                  getWorkflowStatus(isActivated[c],
                      getRequiredAgents(WithRepeatedStep(c, n), allAgents).value) = status[c]

\* a workflow with two steps naming the same agent has rendered over one entry
C9_Witness ==
    \E c \in Cards :
        /\ Rendered(c) /\ isActivated[c]
        /\ "steps" \in DOMAIN workflow[c] /\ Len(workflow[c].steps) = 2
        /\ Cardinality(Declared(c)) = 1
        /\ Truthy(workflow[c].steps[1]) /\ Truthy(workflow[c].steps[2])
        /\ Len(agentStatuses[c]) = 1

-----------------------------------------------------------------------------
(* C10 *)

\* C10: however often the two steps are run for a card, and however the runs
\* of the cards interleave, every run returns the same one of the four values;
\* cards with the same workflow and activation flag return the same value.
C10_DeterministicReadiness ==
    \A c \in Cards :
        /\ returned[c] \subseteq Readiness
        /\ Cardinality(returned[c]) <= 1
        /\ \A d \in Cards :
              workflow[d] = workflow[c] /\ isActivated[d] = isActivated[c] =>
                  Cardinality(returned[c] \cup returned[d]) <= 1

\* a card is being computed again after its first render, while another card
\* has rendered a different value in between
C10_Witness ==
    \E c, d \in Cards :
        /\ c # d
        /\ pc[c] = "resolved" /\ status[c] # "none"
        /\ Rendered(d) /\ status[d] # status[c]
        /\ Len(agentStatuses[c]) >= 1 /\ Len(agentStatuses[d]) >= 1

-----------------------------------------------------------------------------
(* C11 *)

\* C11: the readiness computation is total: for every workflow and snapshot,
\* also with missing or empty steps, steps without an agentName and agents
\* whose name is missing or empty, it raises no exception and a rendered card
\* shows one of the four values.
C11_TotalReadiness ==
    \A c \in Cards :
        /\ pc[c] # "threw"
        /\ Rendered(c) => status[c] \in Readiness

-----------------------------------------------------------------------------
(* C12 *)

\* C12: name resolution and readiness computation leave the workflow
\* definitions, the activation flags and the registry snapshot as they were, so
\* the computations of several cards over one snapshot cannot affect one another.
C12_InputsUnchanged ==
    [][ /\ allAgents' = allAgents
        /\ workflow' = workflow
        /\ isActivated' = isActivated ]_vars

\* both cards have run both steps over a snapshot that holds an agent
C12_Witness ==
    /\ Cardinality(Cards) = 2
    /\ \A c \in Cards : Rendered(c) /\ Len(agentStatuses[c]) >= 1
    /\ Len(allAgents) >= 1

-----------------------------------------------------------------------------
(* C13 *)

\* C13: the tracker toggles isOnline of an agent only on the N-th of N
\* consecutive probe outcomes against its classification: one failed probe, a
\* shorter run or a run interrupted by an agreeing outcome never flips it, in
\* either direction.
C13_ToggleAfterThreshold ==
    [][ \A k \in DOMAIN liveness :
            liveness'[k].isOnline # liveness[k].isOnline =>
                /\ Len(recent'[k]) = Threshold
                /\ \A i \in 1..Threshold : recent'[k][i] = ~liveness[k].isOnline ]_vars

\* an agent classified online whose latest outcomes are a failure followed by
\* a success: the single failure did not flip it and the counter is cleared
C13_Witness ==
    \E k \in DOMAIN liveness :
        /\ liveness[k].isOnline
        /\ liveness[k].streak = 0
        /\ recent[k] = <<FALSE, TRUE>>

-----------------------------------------------------------------------------
(* C14 *)

LacksRequiredField(d) == "name" \notin DOMAIN d \/ "baseUrl" \notin DOMAIN d

\* C14: a registration whose descriptor lacks name or baseUrl fails with
\* descriptor-invalid and leaves the registry, the entry of that agent and its
\* liveness status included, exactly as it was.
C14_InvalidDescriptorRejected ==
    [][ \A w \in Clients :
            wpc[w] = "called" /\ wpc'[w] # "called" /\ LacksRequiredField(wdesc[w]) =>
                /\ wpc'[w] = "descriptor-invalid"
                /\ registry' = registry
                /\ liveness' = liveness
                /\ staging' = staging
                /\ lock' = lock ]_vars

\* a descriptor without a required field has been rejected while the registry
\* holds an entry that is classified offline
C14_Witness ==
    \E w \in Clients, k \in DOMAIN registry :
        /\ wpc[w] = "descriptor-invalid"
        /\ registry[k] = NewDescriptor
        /\ ~liveness[k].isOnline

-----------------------------------------------------------------------------
(* C15 *)

\* client w completes its registration in this step
Accepts(w) == wpc[w] = "staged" /\ wpc'[w] = "accepted"

-----------------------------------------------------------------------------
(* C16 *)

-----------------------------------------------------------------------------
(* C17 *)

\* C17: the writers of one key are served one at a time: under every
\* interleaving of two registrations, and of probe results, for one key the
\* stored record is in full one of the descriptors sent, the one accepted last,
\* so that a reader sees the complete old record or the complete new one.
C17_OneWriterPerKey ==
    /\ DOMAIN liveness = DOMAIN registry
    /\ \A k \in DOMAIN registry :
          /\ registry[k] \in written[k]
          /\ registry[k] = lastCommitted[k]
    /\ \A k \in Keys :
          Cardinality({w \in Clients :
                          /\ wpc[w] \in {"holding", "half-staged", "staged"}
                          /\ KeyOf(wdesc[w]) = k}) <= 1

\* two registrations for one key with different payloads have both been
\* accepted, and the record stored is one of the two
C17_Witness ==
    \E v, w \in Clients :
        /\ wpc[v] = "accepted" /\ wpc[w] = "accepted"
        /\ wdesc[v] # wdesc[w]
        /\ KeyOf(wdesc[v]) = KeyOf(wdesc[w])
        /\ registry[KeyOf(wdesc[w])] = wdesc[w]

-----------------------------------------------------------------------------
(* C18 *)

\* the steps of card c that name an agent
NamingSteps(c) ==
    IF "steps" \in DOMAIN workflow[c]
    THEN {k \in 1..Len(workflow[c].steps) :
            /\ "agentName" \in DOMAIN workflow[c].steps[k]
            /\ workflow[c].steps[k].agentName # EmptyString}
    ELSE {}

\* the first step of card c that names agent n
FirstOccurrence(c, n) ==
    First({k \in NamingSteps(c) : workflow[c].steps[k].agentName = n})

\* C18: getRequiredAgents returns one entry per distinct non-empty agentName
\* of workflow.steps, in the order of first occurrence, each with
\* isEnabled = FALSE; steps with an empty or missing agentName add nothing and
\* undefined steps give the empty list.
C18_OneEntryPerNameInOrder ==
    \A c \in Cards :
        Computed(c) =>
            /\ Len(agentStatuses[c]) = Cardinality(Declared(c))
            /\ \A i \in Entries(c) :
                  /\ agentStatuses[c][i].agentName \in Declared(c)
                  /\ agentStatuses[c][i].isEnabled = FALSE
            /\ \A i, j \in Entries(c) :
                  i < j => FirstOccurrence(c, agentStatuses[c][i].agentName)
                             < FirstOccurrence(c, agentStatuses[c][j].agentName)
            /\ "steps" \notin DOMAIN workflow[c] => agentStatuses[c] = <<>>

\* two entries have been computed for a workflow whose first step names no agent
C18_Witness ==
    \E c \in Cards :
        /\ Computed(c)
        /\ "steps" \in DOMAIN workflow[c] /\ Len(workflow[c].steps) >= 2
        /\ ~Truthy(workflow[c].steps[1])
        /\ Len(agentStatuses[c]) >= 1

-----------------------------------------------------------------------------
(* C19 *)

Rank(s) == CASE s = "unavailable" -> 0 [] s = "partial" -> 1 [] s = "ready" -> 2
                [] OTHER -> 0

\* the snapshot with agent j switched to online
WithOnline(j) == [allAgents EXCEPT ![j].status = "online"]

\* C19: with names and registry order unchanged, switching one registered agent
\* from offline to online never lowers the readiness of an activated workflow
\* (unavailable < partial < ready), and no declared name resolves to another
\* agent because of the switch.
C19_MonotoneInLiveness ==
    \A c \in Cards :
        Rendered(c) /\ isActivated[c] =>
            \A j \in 1..Len(allAgents) :
                ~Online(j) =>
                    /\ Rank(getWorkflowStatus(TRUE,
                               getRequiredAgents(workflow[c], WithOnline(j)).value))
                          >= Rank(status[c])
                    /\ \A n \in Declared(c) :
                          find(WithOnline(j), n).index = find(allAgents, n).index

\* an activated card rendered 'partial', and switching one offline agent to
\* online makes it 'ready'
C19_Witness ==
    \E c \in Cards :
        /\ Rendered(c) /\ isActivated[c] /\ status[c] = "partial"
        /\ \E j \in 1..Len(allAgents) :
              /\ ~Online(j)
              /\ getWorkflowStatus(TRUE,
                     getRequiredAgents(workflow[c], WithOnline(j)).value) = "ready"

-----------------------------------------------------------------------------
(* C20 *)

\* the orders the agents of the snapshot can arrive in
Permutations ==
    {p \in [1..Len(allAgents) -> 1..Len(allAgents)] :
        \A i, j \in 1..Len(allAgents) : i # j => p[i] # p[j]}

Permuted(p) == [i \in 1..Len(allAgents) |-> allAgents[p[i]]]

Unambiguous(c) ==
    \A n \in Declared(c) : Cardinality(ExactAgents(n) \cup ContainingAgents(n)) <= 1

\* C20: when each declared name of a workflow is matched (equality or
\* containment in either direction, ignoring case) by at most one registered
\* agent, the readiness is the same for every permutation of the snapshot.
C20_PermutationInvariant ==
    \A c \in Cards :
        Rendered(c) /\ Unambiguous(c) =>
            \A p \in Permutations :
                getWorkflowStatus(isActivated[c],
                    getRequiredAgents(workflow[c], Permuted(p)).value) = status[c]

\* an activated card rendered 'partial' over two agents of different status,
\* one of its names matched by one agent and the other by none
C20_Witness ==
    \E c \in Cards :
        /\ Rendered(c) /\ isActivated[c] /\ Unambiguous(c)
        /\ Len(allAgents) = 2 /\ Online(1) /\ ~Online(2)
        /\ Cardinality(Declared(c)) = 2
        /\ status[c] = "partial"

-----------------------------------------------------------------------------
(* start.ps1: the service selection menu and the start of the services *)

\* $services, lines 9-22
AllServices ==
    << "backend", "frontend", "azurefoundry_assessment", "azurefoundry_branding",
       "azurefoundry_claims", "azurefoundry_classification", "azurefoundry_Deep_Search",
       "azurefoundry_fraud", "azurefoundry_image_analysis", "azurefoundry_image_generator",
       "azurefoundry_legal", "azurefoundry_SN" >>

\* the services of the model: backend, frontend and the first remote agents of the list
services == SubSeq(AllServices, 1, 2 + MaxRemoteAgents)
Count == Len(services)
ServiceNames == Range(services)
RemoteAgents == ServiceNames \ {"backend", "frontend"}

\* virtual key codes of the switch, lines 70-80, and two keys it has no case for
VK_UP == 38
VK_DOWN == 40
VK_SPACE == 32
VK_RETURN == 13
VK_ESCAPE == 27
VK_A == 65
KeyCodes == {VK_UP, VK_DOWN, VK_SPACE, VK_RETURN, VK_ESCAPE, VK_A}

\* ReadKey("NoEcho,IncludeKeyDown") returns key-down events only
KeyInfos == [VirtualKeyCode : KeyCodes, KeyDown : {TRUE}]
NoKey == [VirtualKeyCode |-> 0, KeyDown |-> FALSE]

\* lines 29-33
DefaultSelections == [s \in ServiceNames |-> s = "backend" \/ s = "frontend"]

\* Up arrow, line 71
MoveUp(i) == IF i > 0 THEN i - 1 ELSE Count - 1

\* Down arrow that stops wrapping
MoveDown_NoWrap(i) == i + 1

\* Down arrow, line 74
MoveDown(i) == IF i < Count - 1 THEN i + 1 ELSE 0

\* Space, lines 77-78
Toggle(sel, i) == [sel EXCEPT ![services[i + 1]] = ~@]

\* @($services | Where-Object { $serviceSelections[$_] }), line 81
Selected(sel) == SelectSeq(services, LAMBDA s : sel[s])

\* -contains
Contains(seq, x) == \E i \in 1..Len(seq) : seq[i] = x

\* the windows Start-Process opens, lines 150-151, 161, 186
BackendWindows ==
    << [path |-> "backend", command |-> "python.exe start_websocket.py"],
       [path |-> "backend", command |-> "python.exe backend_production.py"] >>
FrontendWindows == << [path |-> "frontend", command |-> "npm run dev"] >>
AgentWindows(agent) == << [path |-> agent, command |-> "uv run . --ui"] >>

\* Test-Path $agentPath, line 178
TestPath(agent) == agent \in agentDirs

\* One pass of the while loop, lines 39-86: draw the menu, read a key, act on it
ReadKey(k) ==
    /\ spc = "menu"
    /\ ~proceed
    /\ key' = k
    /\ IF ~k.KeyDown
       THEN UNCHANGED <<selectedIndex, serviceSelections, selectedServices, proceed>>
       ELSE CASE k.VirtualKeyCode = VK_UP ->
                    /\ selectedIndex' = MoveUp(selectedIndex)
                    /\ UNCHANGED <<serviceSelections, selectedServices, proceed>>
              [] k.VirtualKeyCode = VK_DOWN ->
                    /\ selectedIndex' = MoveDown(selectedIndex)
                    /\ UNCHANGED <<serviceSelections, selectedServices, proceed>>
              [] k.VirtualKeyCode = VK_SPACE ->
                    /\ serviceSelections' = Toggle(serviceSelections, selectedIndex)
                    /\ UNCHANGED <<selectedIndex, selectedServices, proceed>>
              [] k.VirtualKeyCode = VK_RETURN ->
                    /\ selectedServices' = Selected(serviceSelections)
                    /\ proceed' = TRUE
                    /\ UNCHANGED <<selectedIndex, serviceSelections>>
              [] OTHER ->
                    UNCHANGED <<selectedIndex, serviceSelections, selectedServices, proceed>>
    /\ UNCHANGED <<selectedAgents, agentDirs, windows, spc, agentIndex>>
    /\ UNCHANGED <<cardVars, regVars, pageVars, voiceVars>>

\* The loop has ended: lines 88-94
ExtractSelectedAgents ==
    /\ spc = "menu"
    /\ proceed
    /\ selectedAgents' = SelectSeq(selectedServices,
                                   LAMBDA s : s # "backend" /\ s # "frontend")
    /\ spc' = "backend"
    /\ UNCHANGED <<serviceSelections, selectedIndex, proceed, key, selectedServices,
                   agentDirs, windows, agentIndex>>
    /\ UNCHANGED <<cardVars, regVars, pageVars, voiceVars>>

\* lines 96-155
StartBackend ==
    /\ spc = "backend"
    /\ windows' = IF Contains(selectedServices, "backend")
                  THEN windows \o BackendWindows
                  ELSE windows
    /\ spc' = "frontend"
    /\ UNCHANGED <<serviceSelections, selectedIndex, proceed, key, selectedServices,
                   selectedAgents, agentDirs, agentIndex>>
    /\ UNCHANGED <<cardVars, regVars, pageVars, voiceVars>>

\* lines 157-165, and the test of line 168
StartFrontend ==
    /\ spc = "frontend"
    /\ windows' = IF Contains(selectedServices, "frontend")
                  THEN windows \o FrontendWindows
                  ELSE windows
    /\ spc' = IF Len(selectedAgents) > 0 THEN "agents" ELSE "report"
    /\ agentIndex' = 1
    /\ UNCHANGED <<serviceSelections, selectedIndex, proceed, key, selectedServices,
                   selectedAgents, agentDirs>>
    /\ UNCHANGED <<cardVars, regVars, pageVars, voiceVars>>

\* a foreach pass that starts the agent without Test-Path
StartAgent_NoTestPath ==
    /\ spc = "agents"
    /\ agentIndex <= Len(selectedAgents)
    /\ windows' = windows \o AgentWindows(selectedAgents[agentIndex])
    /\ agentIndex' = agentIndex + 1
    /\ spc' = IF agentIndex + 1 > Len(selectedAgents) THEN "report" ELSE "agents"
    /\ UNCHANGED <<serviceSelections, selectedIndex, proceed, key, selectedServices,
                   selectedAgents, agentDirs>>
    /\ UNCHANGED <<cardVars, regVars, pageVars, voiceVars>>

\* One pass of foreach ($agent in $selectedAgents), lines 175-192
StartAgent ==
    /\ spc = "agents"
    /\ agentIndex <= Len(selectedAgents)
    /\ LET agent == selectedAgents[agentIndex]
       IN  windows' = IF ~TestPath(agent)
                      THEN windows
                      ELSE windows \o AgentWindows(agent)
    /\ agentIndex' = agentIndex + 1
    /\ spc' = IF agentIndex + 1 > Len(selectedAgents) THEN "report" ELSE "agents"
    /\ UNCHANGED <<serviceSelections, selectedIndex, proceed, key, selectedServices,
                   selectedAgents, agentDirs>>
    /\ UNCHANGED <<cardVars, regVars, pageVars, voiceVars>>

\* lines 193-212: the summary, which starts nothing
Report ==
    /\ spc = "report"
    /\ spc' = "done"
    /\ UNCHANGED <<serviceSelections, selectedIndex, proceed, key, selectedServices,
                   selectedAgents, agentDirs, windows, agentIndex>>
    /\ UNCHANGED <<cardVars, regVars, pageVars, voiceVars>>

NextMenu ==
    \/ \E k \in KeyInfos : ReadKey(k)
    \/ ExtractSelectedAgents
    \/ StartBackend
    \/ StartFrontend
    \/ StartAgent
    \/ Report

\* The script starts: lines 29-37, with any set of agent directories on disk
InitMenu ==
    /\ serviceSelections = DefaultSelections
    /\ selectedIndex = 0
    /\ selectedAgents = <<>>
    /\ proceed = FALSE
    /\ key = NoKey
    /\ selectedServices = <<>>
    /\ agentDirs \in SUBSET RemoteAgents
    /\ windows = <<>>
    /\ spc = "menu"
    /\ agentIndex = 0
    /\ NoCards /\ RegistryEmpty /\ NoPage /\ NoVoice
SpecMenu == InitMenu /\ [][NextMenu]_vars

\* the services that have a window
Launched == {windows[i].path : i \in 1..Len(windows)}

\* a pass of the menu loop that read the key with code c
Pressed(c) == spc = "menu" /\ ~proceed /\ key'.VirtualKeyCode = c

-----------------------------------------------------------------------------
(* C21 *)

\* C21: the menu starts with exactly backend and frontend selected; a Space
\* press inverts the selection of the highlighted service and of no other;
\* no window is opened before Enter, and from Enter on the selection is
\* frozen; when the script is done the services that have a window are
\* exactly the selected ones, a remote agent only if its directory exists,
\* and no window is opened twice.
C21_LaunchesTheSelection ==
    /\ (spc = "menu" /\ key = NoKey =>
            \A s \in ServiceNames : serviceSelections[s] <=> s \in {"backend", "frontend"})
    /\ [][ /\ Pressed(VK_SPACE) =>
                \A s \in ServiceNames :
                    serviceSelections'[s] =
                        IF s = services[selectedIndex + 1]
                        THEN ~serviceSelections[s]
                        ELSE serviceSelections[s]
           /\ ~proceed' => windows' = <<>>
           /\ proceed => serviceSelections' = serviceSelections
           /\ spc' = "done" =>
                /\ Launched' = {s \in ServiceNames :
                                    /\ serviceSelections'[s]
                                    /\ s \in RemoteAgents => s \in agentDirs'}
                /\ \A i, j \in 1..Len(windows') : windows'[i] = windows'[j] => i = j
         ]_vars

\* the script is done after an agent whose directory exists and one whose
\* directory is missing were selected and backend was deselected
C21_Witness ==
    /\ spc = "done"
    /\ ~serviceSelections["backend"]
    /\ serviceSelections["frontend"]
    /\ \E a, b \in RemoteAgents :
        /\ serviceSelections[a] /\ a \in agentDirs /\ a \in Launched
        /\ serviceSelections[b] /\ b \notin agentDirs /\ b \notin Launched

-----------------------------------------------------------------------------
(* C22 *)

\* C22: selectedIndex is always within 0..Count-1; Up from 0 goes to the last
\* index and otherwise one up, Down from the last index goes to 0 and
\* otherwise one down; a key other than Up, Down, Space and Enter changes
\* neither the index nor any selection.
C22_IndexWraps ==
    /\ (spc = "menu" /\ key = NoKey => selectedIndex \in 0..(Count - 1))
    /\ [][ /\ selectedIndex' \in 0..(Count - 1)
           /\ Pressed(VK_UP) =>
                selectedIndex' = IF selectedIndex = 0 THEN Count - 1 ELSE selectedIndex - 1
           /\ Pressed(VK_DOWN) =>
                selectedIndex' = IF selectedIndex = Count - 1 THEN 0 ELSE selectedIndex + 1
           /\ (spc = "menu" /\ ~proceed
                 /\ key'.VirtualKeyCode \notin {VK_UP, VK_DOWN, VK_SPACE, VK_RETURN}) =>
                UNCHANGED <<selectedIndex, serviceSelections>>
         ]_vars

\* Up was pressed at index 0 and the last service is highlighted
C22_Witness ==
    /\ spc = "menu"
    /\ key.VirtualKeyCode = VK_UP
    /\ selectedIndex = Count - 1
    /\ serviceSelections = DefaultSelections

-----------------------------------------------------------------------------
(* The Home page (app/page.tsx) and the LoginForm it renders *)

\* JSON values: null, a number and the user objects of the login response
JsonNull == [type |-> "null"]
JsonNumber == [type |-> "number", text |-> "42"]
Alice == [type |-> "object", user_id |-> "u1", email |-> "alice@example.com",
          name |-> "Alice", role |-> "admin", color |-> "blue"]
Bob == [type |-> "object", user_id |-> "u2", email |-> "bob@example.com",
        name |-> "Bob", role |-> "user", color |-> "green"]
UserInfos == {Alice, Bob}
JsonValues == UserInfos \cup {JsonNull, JsonNumber}

\* JSON.stringify
JSON_stringify(v) ==
    CASE v.type = "null" -> "null"
      [] v.type = "number" -> v.text
      [] OTHER -> "{\"user_id\":\"" \o v.user_id \o "\",\"email\":\"" \o v.email
                  \o "\",\"name\":\"" \o v.name \o "\",\"role\":\"" \o v.role
                  \o "\",\"color\":\"" \o v.color \o "\"}"

\* texts that are not JSON
Truncated == "{\"user_id\":\"u1\","
NotJson == {"", "undefined", Truncated}

\* JSON.parse: the value a text denotes, or a SyntaxError
JSON_parse(text) ==
    IF \E v \in JsonValues : JSON_stringify(v) = text
    THEN [threw |-> FALSE, value |-> CHOOSE v \in JsonValues : JSON_stringify(v) = text]
    ELSE [threw |-> TRUE]

\* sessionStorage.getItem, setItem, removeItem
getItem(st, k) == IF k \in DOMAIN st THEN [null |-> FALSE, value |-> st[k]] ELSE [null |-> TRUE]
setItem(st, k, v) == [x \in DOMAIN st \cup {k} |-> IF x = k THEN v ELSE st[x]]
removeItem(st, k) == [x \in DOMAIN st \ {k} |-> st[x]]

\* truthiness of a string-or-null, as in token && storedUser
TruthyItem(r) == ~r.null /\ r.value # ""

Tokens == {"", "tok-1", "tok-2"}
StoredUsers == {JSON_stringify(v) : v \in {Alice, JsonNull, JsonNumber}} \cup NotJson
StoredTexts == [auth_token |-> {"", "tok-1"}, user_info |-> StoredUsers]
Storages ==
    UNION {{st \in [keys -> {"", "tok-1"} \cup StoredUsers] :
                \A k \in keys : st[k] \in StoredTexts[k]} :
           keys \in SUBSET {"auth_token", "user_info"}}

\* useState(false), useState(true), useState(null): lines 107-115
HomeMounting == [isAuthenticated |-> FALSE, isLoading |-> TRUE, user |-> JsonNull]

\* the effect that leaves the stored items in place when user_info does not parse
useEffect_KeepsItems(st, h) ==
    LET token == getItem(st, "auth_token")
        storedUser == getItem(st, "user_info")
    IN  IF TruthyItem(token) /\ TruthyItem(storedUser) /\ ~JSON_parse(storedUser.value).threw
        THEN [storage |-> st,
              home |-> [user |-> JSON_parse(storedUser.value).value,
                        isAuthenticated |-> TRUE, isLoading |-> FALSE]]
        ELSE [storage |-> st, home |-> [h EXCEPT !.isLoading = FALSE]]

\* the mount effect, lines 117-132
useEffect(st, h) ==
    LET token == getItem(st, "auth_token")
        storedUser == getItem(st, "user_info")
    IN  IF TruthyItem(token) /\ TruthyItem(storedUser)
        THEN LET parsed == JSON_parse(storedUser.value)
             IN  IF ~parsed.threw
                 THEN [storage |-> st,
                       home |-> [user |-> parsed.value,
                                 isAuthenticated |-> TRUE, isLoading |-> FALSE]]
                 ELSE [storage |-> removeItem(removeItem(st, "auth_token"), "user_info"),
                       home |-> [h EXCEPT !.isLoading = FALSE]]
        ELSE [storage |-> st, home |-> [h EXCEPT !.isLoading = FALSE]]

\* lines 134-139
handleLogin(st, h, token, userInfo) ==
    [storage |-> setItem(setItem(st, "auth_token", token),
                         "user_info", JSON_stringify(userInfo)),
     home |-> [h EXCEPT !.user = userInfo, !.isAuthenticated = TRUE]]

\* a logout that leaves user_info in the storage
handleLogout_KeepsUserInfo(st, h) ==
    [storage |-> removeItem(st, "auth_token"),
     home |-> [h EXCEPT !.user = JsonNull, !.isAuthenticated = FALSE]]

\* lines 141-146
handleLogout(st, h) ==
    [storage |-> removeItem(removeItem(st, "auth_token"), "user_info"),
     home |-> [h EXCEPT !.user = JsonNull, !.isAuthenticated = FALSE]]

\* what Home returns, lines 148-160
Renders(h) ==
    IF h.isLoading THEN "spinner"
    ELSE IF ~h.isAuthenticated THEN "LoginForm"
    ELSE "Dashboard"

\* LoginForm: useState(""), useState(false), part_002:13-14
FormIdle == [error |-> "", isLoading |-> FALSE, pc |-> "idle"]

\* outcomes of await login(email, password): a response, or an exception
Thrown == [thrown |-> TRUE]
NoResponse == [none |-> TRUE]
Responses ==
    { [success |-> TRUE, access_token |-> "tok-1", user_info |-> Alice],
      [success |-> TRUE, access_token |-> "tok-2", user_info |-> Bob, message |-> "Welcome"],
      [success |-> TRUE, access_token |-> "", user_info |-> Alice, message |-> ""],
      [success |-> TRUE, user_info |-> Alice],
      [success |-> TRUE, access_token |-> "tok-1"],
      [success |-> TRUE, access_token |-> "tok-1", user_info |-> JsonNull,
       message |-> "No profile"],
      [success |-> FALSE, message |-> "Invalid credentials"],
      [success |-> FALSE],
      [success |-> FALSE, access_token |-> "tok-1", user_info |-> Alice,
       message |-> "Account locked"] }
Outcomes == Responses \cup {Thrown}

\* truthiness of an optional boolean, string or object property of the response
TruthyBoolean(r, f) == f \in DOMAIN r /\ r[f]
TruthyString(r, f) == f \in DOMAIN r /\ r[f] # ""
TruthyObject(r, f) == f \in DOMAIN r /\ r[f] # JsonNull

\* the test without response.success
loginSucceeded_NoSuccessTest(response) ==
    TruthyString(response, "access_token") /\ TruthyObject(response, "user_info")

\* response.success && response.access_token && response.user_info, part_002:24
loginSucceeded(response) ==
    /\ TruthyBoolean(response, "success")
    /\ TruthyString(response, "access_token")
    /\ TruthyObject(response, "user_info")

\* response.message || "Login failed", part_002:27
errorOf(response) ==
    IF TruthyString(response, "message") THEN response.message ELSE "Login failed"

\* The effect runs after the first render
UseEffect ==
    /\ home.isLoading
    /\ LET r == useEffect(sessionStorage, home)
       IN  /\ sessionStorage' = r.storage
           /\ home' = r.home
    /\ lastHandler' = "useEffect"
    /\ UNCHANGED <<openedWith, form, onLoginCalls, lastResponse>>
    /\ UNCHANGED <<cardVars, regVars, menuVars, voiceVars>>

\* The holder of the onLogin prop calls it
HandleLogin(token, userInfo) ==
    /\ ~home.isLoading
    /\ LET r == handleLogin(sessionStorage, home, token, userInfo)
       IN  /\ sessionStorage' = r.storage
           /\ home' = r.home
    /\ lastHandler' = "handleLogin"
    /\ UNCHANGED <<openedWith, form, onLoginCalls, lastResponse>>
    /\ UNCHANGED <<cardVars, regVars, menuVars, voiceVars>>

\* The Dashboard calls onLogout
HandleLogout ==
    /\ ~home.isLoading
    /\ LET r == handleLogout(sessionStorage, home)
       IN  /\ sessionStorage' = r.storage
           /\ home' = r.home
    /\ lastHandler' = "handleLogout"
    /\ UNCHANGED <<openedWith, form, onLoginCalls, lastResponse>>
    /\ UNCHANGED <<cardVars, regVars, menuVars, voiceVars>>

\* handleSubmit up to the await, part_002:16-22; the button is disabled while isLoading
HandleSubmit ==
    /\ Renders(home) = "LoginForm"
    /\ ~form.isLoading
    /\ form' = [error |-> "", isLoading |-> TRUE, pc |-> "awaiting"]
    /\ onLoginCalls' = <<>>
    /\ lastResponse' = NoResponse
    /\ UNCHANGED <<sessionStorage, openedWith, home, lastHandler>>
    /\ UNCHANGED <<cardVars, regVars, menuVars, voiceVars>>

\* handleSubmit from the await on, part_002:22-33: login() has settled with outcome o
LoginSettles(o) ==
    /\ form.pc = "awaiting"
    /\ lastResponse' = o
    /\ IF o = Thrown
       THEN /\ form' = [error |-> "Unable to connect to server",
                        isLoading |-> FALSE, pc |-> "settled"]
            /\ UNCHANGED <<sessionStorage, home, lastHandler, onLoginCalls>>
       ELSE IF loginSucceeded(o)
       THEN /\ onLoginCalls' = Append(onLoginCalls,
                                      [token |-> o.access_token, userInfo |-> o.user_info])
            /\ LET r == handleLogin(sessionStorage, home, o.access_token, o.user_info)
               IN  /\ sessionStorage' = r.storage
                   /\ home' = r.home
            /\ lastHandler' = "handleLogin"
            /\ form' = [form EXCEPT !.isLoading = FALSE, !.pc = "settled"]
       ELSE /\ form' = [error |-> errorOf(o), isLoading |-> FALSE, pc |-> "settled"]
            /\ UNCHANGED <<sessionStorage, home, lastHandler, onLoginCalls>>
    /\ UNCHANGED openedWith
    /\ UNCHANGED <<cardVars, regVars, menuVars, voiceVars>>

NextHome ==
    \/ UseEffect
    \/ \E token \in Tokens, userInfo \in UserInfos \cup {JsonNull} : HandleLogin(token, userInfo)
    \/ HandleLogout
    \/ HandleSubmit
    \/ \E o \in Outcomes : LoginSettles(o)

\* The page is opened with st in the tab's sessionStorage
InitPage(st) ==
    /\ sessionStorage = st
    /\ openedWith = st
    /\ home = HomeMounting
    /\ lastHandler = "none"
    /\ form = FormIdle
    /\ onLoginCalls = <<>>
    /\ lastResponse = NoResponse
    /\ NoCards /\ RegistryEmpty /\ NoMenu /\ NoVoice

\* A new tab: the sessionStorage is empty
InitHome == InitPage(<<>>)
SpecHome == InitHome /\ [][NextHome]_vars

\* A tab that is reloaded: the sessionStorage holds whatever was left in it
InitReload == \E st \in Storages : InitPage(st)
SpecReload == InitReload /\ [][NextHome]_vars

\* sessionStorage holds item k
Holds(k) == k \in DOMAIN sessionStorage

\* sessionStorage holds item k with a non-empty value
HoldsNonEmpty(k) == Holds(k) /\ sessionStorage[k] # ""

-----------------------------------------------------------------------------
(* C23 *)

\* C23: in a tab whose sessionStorage was empty when the page opened, after
\* any sequence of handleLogin and handleLogout calls the storage holds
\* auth_token exactly when it holds user_info and exactly when
\* isAuthenticated is true; when handleLogout was the last call the user is
\* null and Home does not render the Dashboard.
C23_StorageFollowsAuthentication ==
    /\ Holds("auth_token") <=> Holds("user_info")
    /\ Holds("auth_token") <=> home.isAuthenticated
    /\ lastHandler = "handleLogout" =>
            /\ home.user = JsonNull
            /\ Renders(home) # "Dashboard"

\* a login through the form was followed by a logout
C23_Witness ==
    /\ lastHandler = "handleLogout"
    /\ lastResponse \in Responses
    /\ loginSucceeded(lastResponse)
    /\ ~Holds("auth_token")
    /\ Renders(home) = "LoginForm"

-----------------------------------------------------------------------------
(* C24 *)

\* the step in which the mount effect runs
Mounts == lastHandler = "none" /\ lastHandler' = "useEffect"

\* C24 as stated: on mount, when the storage holds auth_token and a user_info
\* that parses, the page becomes authenticated with the parsed user; when it
\* holds both and user_info does not parse, both items are removed and the
\* page stays unauthenticated; isLoading becomes false in every case, and
\* while isLoading is true neither LoginForm nor Dashboard is rendered.
C24_RestoresWhatStorageHolds ==
    /\ (home.isLoading => Renders(home) \notin {"LoginForm", "Dashboard"})
    /\ [][ /\ Mounts =>
                /\ ~home'.isLoading
                /\ (Holds("auth_token") /\ Holds("user_info")) =>
                      LET parsed == JSON_parse(sessionStorage["user_info"])
                      IN  IF ~parsed.threw
                          THEN /\ home'.isAuthenticated
                               /\ home'.user = parsed.value
                               /\ sessionStorage' = sessionStorage
                          ELSE /\ ~home'.isAuthenticated
                               /\ DOMAIN sessionStorage' = {}
           /\ home'.isLoading => Renders(home') \notin {"LoginForm", "Dashboard"}
         ]_vars

\* C24, amended: the same with "holds" read as "holds a non-empty value" for
\* both items; an item that is missing or empty leaves the page
\* unauthenticated and the storage as it was.
C24_RestoresNonEmptyItems ==
    /\ (home.isLoading => Renders(home) \notin {"LoginForm", "Dashboard"})
    /\ [][ /\ Mounts =>
                /\ ~home'.isLoading
                /\ IF HoldsNonEmpty("auth_token") /\ HoldsNonEmpty("user_info")
                   THEN LET parsed == JSON_parse(sessionStorage["user_info"])
                        IN  IF ~parsed.threw
                            THEN /\ home'.isAuthenticated
                                 /\ home'.user = parsed.value
                                 /\ sessionStorage' = sessionStorage
                            ELSE /\ ~home'.isAuthenticated
                                 /\ DOMAIN sessionStorage' = {}
                   ELSE /\ ~home'.isAuthenticated
                        /\ sessionStorage' = sessionStorage
           /\ home'.isLoading => Renders(home') \notin {"LoginForm", "Dashboard"}
         ]_vars

\* the effect has run on a token with a truncated user_info: both items are
\* gone and the LoginForm is shown
C24_Witness ==
    /\ lastHandler = "useEffect"
    /\ DOMAIN openedWith = {"auth_token", "user_info"}
    /\ openedWith["auth_token"] = "tok-1"
    /\ openedWith["user_info"] = Truncated
    /\ DOMAIN sessionStorage = {}
    /\ ~home.isLoading
    /\ Renders(home) = "LoginForm"

-----------------------------------------------------------------------------
(* C25 *)

\* the claim's condition on a login outcome: a response with success true, a
\* non-empty access_token and a user_info
GrantsLogin(o) ==
    /\ o # Thrown
    /\ "success" \in DOMAIN o /\ o.success = TRUE
    /\ "access_token" \in DOMAIN o /\ o.access_token # ""
    /\ "user_info" \in DOMAIN o /\ o.user_info # JsonNull

\* the step in which a submit completes
Completes == form.pc = "awaiting" /\ form'.pc = "settled"

\* C25: a submit that completes has called onLogin, once and with the
\* response's access_token and user_info, exactly when the response has
\* success true with an access_token and a user_info; otherwise onLogin was
\* not called and the error is the response's message, or "Login failed"
\* when it has none, or "Unable to connect to server" when login() threw;
\* isLoading is true while the request is in flight and false once the
\* submit has completed.
C25_OnLoginOnlyOnSuccess ==
    [][ /\ Completes =>
             LET o == lastResponse'
             IN  /\ ~form'.isLoading
                 /\ IF GrantsLogin(o)
                    THEN onLoginCalls' = <<[token |-> o.access_token,
                                           userInfo |-> o.user_info]>>
                    ELSE /\ onLoginCalls' = <<>>
                         /\ form'.error =
                              IF o = Thrown THEN "Unable to connect to server"
                              ELSE IF "message" \in DOMAIN o /\ o.message # ""
                                   THEN o.message
                                   ELSE "Login failed"
        /\ form'.pc = "awaiting" => form'.isLoading /\ onLoginCalls' = <<>>
        /\ form'.pc = "settled" => ~form'.isLoading
        /\ ~Completes => onLoginCalls' = <<>> \/ onLoginCalls' = onLoginCalls
      ]_vars

\* a submit completed on a response that has a token and a user but success
\* false: onLogin was not called and the response's message is shown
C25_Witness ==
    /\ form.pc = "settled"
    /\ lastResponse \in Responses
    /\ ~lastResponse.success
    /\ "access_token" \in DOMAIN lastResponse
    /\ onLoginCalls = <<>>
    /\ form.error = "Account locked"
    /\ ~form.isLoading

-----------------------------------------------------------------------------
(* VoiceButton: getButtonState and handleClick *)

\* a string-or-null value of the hook
Null == [null |-> TRUE]
Text(s) == [null |-> FALSE, value |-> s]

\* what useVoiceRealtime can return: any combination of its flags
Voices ==
    [error : {Null, Text(""), Text("Microphone access denied")},
     isSpeaking : BOOLEAN,
     isProcessing : BOOLEAN,
     isListening : BOOLEAN,
     isConnected : BOOLEAN,
     currentAgent : {Null, Text("Search")}]

\* the six values getButtonState returns, part_001:57-101
ErrorState ==
    [color |-> "bg-red-500", pulseColor |-> "bg-red-400", icon |-> "error",
     label |-> "Error - Tap to retry"]
SpeakingState ==
    [color |-> "bg-purple-500", pulseColor |-> "bg-purple-400", icon |-> "speaking",
     label |-> "Speaking..."]
ProcessingState(v) ==
    [color |-> "bg-yellow-500", pulseColor |-> "bg-yellow-400", icon |-> "processing",
     label |-> IF TruthyItem(v.currentAgent)
               THEN "Contacting " \o v.currentAgent.value \o "..."
               ELSE "Processing..."]
ListeningState ==
    [color |-> "bg-green-500", pulseColor |-> "bg-green-400", icon |-> "listening",
     label |-> "Listening..."]
ConnectedState ==
    [color |-> "bg-blue-500", pulseColor |-> "bg-blue-400", icon |-> "connected",
     label |-> "Connected"]
IdleState ==
    [color |-> "bg-primary-600", pulseColor |-> "bg-primary-400", icon |-> "idle",
     label |-> "Tap to speak"]

\* getButtonState with the speaking test ahead of the error test
getButtonState_SpeakingFirst(v) ==
    IF v.isSpeaking THEN SpeakingState
    ELSE IF TruthyItem(v.error) THEN ErrorState
    ELSE IF v.isProcessing THEN ProcessingState(v)
    ELSE IF v.isListening THEN ListeningState
    ELSE IF v.isConnected THEN ConnectedState
    ELSE IdleState

\* getButtonState, part_001:55-102
getButtonState(v) ==
    IF TruthyItem(v.error) THEN ErrorState
    ELSE IF v.isSpeaking THEN SpeakingState
    ELSE IF v.isProcessing THEN ProcessingState(v)
    ELSE IF v.isListening THEN ListeningState
    ELSE IF v.isConnected THEN ConnectedState
    ELSE IdleState

\* handleClick, part_001:46-52: the method of the hook it calls
handleClick(v) == IF v.isConnected THEN "stopConversation" ELSE "startConversation"

\* The hook's state changes and the button renders again: const state = getButtonState()
Rerender(v) ==
    /\ v # voice
    /\ voice' = v
    /\ buttonState' = getButtonState(v)
    /\ voiceCalls' = <<>>
    /\ UNCHANGED <<cardVars, regVars, menuVars, pageVars>>

\* The button is tapped: onClick={handleClick}
HandleClick ==
    /\ Len(voiceCalls) < MaxClicks
    /\ voiceCalls' = Append(voiceCalls, handleClick(voice))
    /\ UNCHANGED <<voice, buttonState>>
    /\ UNCHANGED <<cardVars, regVars, menuVars, pageVars>>

NextVoice ==
    \/ \E v \in Voices : Rerender(v)
    \/ HandleClick

\* The button is mounted on any state of the hook
InitVoice ==
    /\ voice \in Voices
    /\ buttonState = getButtonState(voice)
    /\ voiceCalls = <<>>
    /\ NoCards /\ RegistryEmpty /\ NoMenu /\ NoPage
SpecVoice == InitVoice /\ [][NextVoice]_vars

\* voice.error is set
HasError == ~voice.error.null /\ voice.error.value # ""

-----------------------------------------------------------------------------
(* C26 *)

\* C26: the state shown is the first that applies of error, speaking,
\* processing, listening, connected, and idle when none does; it is always
\* exactly one of these six, and it is the error state whenever an error is
\* set, whatever the other flags; every tap since the last render called
\* stopConversation if voice.isConnected and startConversation if not.
C26_PriorityOfStates ==
    /\ buttonState.icon =
          CASE HasError -> "error"
            [] ~HasError /\ voice.isSpeaking -> "speaking"
            [] ~HasError /\ ~voice.isSpeaking /\ voice.isProcessing -> "processing"
            [] ~HasError /\ ~voice.isSpeaking /\ ~voice.isProcessing
                 /\ voice.isListening -> "listening"
            [] ~HasError /\ ~voice.isSpeaking /\ ~voice.isProcessing
                 /\ ~voice.isListening /\ voice.isConnected -> "connected"
            [] OTHER -> "idle"
    /\ Cardinality({s \in {ErrorState, SpeakingState, ProcessingState(voice),
                          ListeningState, ConnectedState, IdleState} :
                        s = buttonState}) = 1
    /\ HasError => buttonState = ErrorState
    /\ \A i \in 1..Len(voiceCalls) :
          /\ voiceCalls[i] = "stopConversation" <=> voice.isConnected
          /\ voiceCalls[i] = "startConversation" <=> ~voice.isConnected

\* an error is set while the hook is connected and speaking, the error state
\* is shown, and a tap has called stopConversation
C26_Witness ==
    /\ HasError
    /\ voice.isSpeaking /\ voice.isConnected
    /\ buttonState.icon = "error"
    /\ voiceCalls = <<"stopConversation">>

====
